---- MODULE Spec2Model ----
(***************************************************************************)
(* Web Search Microservice (src/app.py): module initialisation, the three  *)
(* endpoints /health, /search and /quick-search, and the single outbound   *)
(* call tavily.search.                                                    *)
(*                                                                         *)
(* Representation.                                                         *)
(*  - A Python dict is a function whose DOMAIN is the set of its keys.     *)
(*  - An Optional value is a sequence of length <= 1: None is <<>> and a   *)
(*    value v is <<v>>.                                                    *)
(*  - A text is the sequence of its words, so that "s contains t" is       *)
(*    decided (Contains) instead of assumed.                               *)
(*  - A float score is an integer number of hundredths.                    *)
(***************************************************************************)
EXTENDS Integers, Sequences, FiniteSets, TLC

VARIABLES
    environ,          \* the value os.getenv("TAVILY_API_KEY") will read
    init_pc,          \* position of the module-level code of app.py
    TAVILY_API_KEY,   \* module global, line 18
    tavily,           \* module global, line 23: the provider client
    app,              \* module global, line 26: TRUE once FastAPI(...) exists
    startup_error,    \* text of the ValueError raised at line 20, if any
    pc,               \* per request: idle, received, handling, awaiting, done
    endpoint,         \* per request: the route it was sent to
    body,             \* per request: the raw JSON body / query string
    request,          \* per request: the validated model the handler receives
    call,             \* per request: keyword arguments of tavily.search
    calls,            \* per request: how many times tavily.search was invoked
    reply,            \* per request: what tavily.search returned or raised
    response          \* per request: what crosses the service boundary

vars == <<environ, init_pc, TAVILY_API_KEY, tavily, app, startup_error,
          pc, endpoint, body, request, call, calls, reply, response>>

startup == <<environ, init_pc, TAVILY_API_KEY, tavily, app, startup_error>>

-----------------------------------------------------------------------------
(* Bounds *)

\* longest result list the provider returns
MaxResults == 2

\* requests in flight at once in the concurrent specification
NumReqs == 2

-----------------------------------------------------------------------------
(* Python values *)

None == <<>>

Some(v) == <<v>>

\* dict.get(k): the value, or None when the key is missing
Get(d, k) == IF k \in DOMAIN d THEN Some(d[k]) ELSE None

\* dict.get(k, default)
GetOr(d, k, default) == IF k \in DOMAIN d THEN d[k] ELSE default

\* `t in s` for texts
Contains(s, t) ==
    \E i \in 0..(Len(s) - Len(t)) : SubSeq(s, i + 1, i + Len(t)) = t

\* a check that would only notice an unset variable
FalsyOnlyNone(x) == x = None

\* `not x` for an Optional[str]: None and "" are both falsy
Falsy(x) == x = None \/ x[1] = ""

\* a check that would let an empty list through
TruthyListNotNone(x) == x # None

\* `if x:` for an Optional[List[str]]: None and [] are both falsy
TruthyList(x) == x # None /\ x[1] # <<>>

-----------------------------------------------------------------------------
(* Module initialisation, lines 15-30 *)

KeyNotSetText == <<"TAVILY_API_KEY", "not", "set", "in", "environment", "variables">>

EnvironValues == {None, Some(""), Some("tvly-key")}

\* lines 18-20
LoadKey ==
    /\ init_pc = "start"
    /\ TAVILY_API_KEY' = environ
    /\ IF Falsy(environ)
         THEN /\ init_pc' = "failed"
              /\ startup_error' = KeyNotSetText
         ELSE /\ init_pc' = "keyed"
              /\ startup_error' = startup_error
    /\ UNCHANGED <<environ, tavily, app, pc, endpoint, body, request, call,
                   calls, reply, response>>

\* line 23
CreateClient ==
    /\ init_pc = "keyed"
    /\ tavily' = Some(TAVILY_API_KEY[1])
    /\ init_pc' = "client"
    /\ UNCHANGED <<environ, TAVILY_API_KEY, app, startup_error, pc, endpoint,
                   body, request, call, calls, reply, response>>

\* lines 26-30
CreateApp ==
    /\ init_pc = "client"
    /\ app' = TRUE
    /\ init_pc' = "serving"
    /\ UNCHANGED <<environ, TAVILY_API_KEY, tavily, startup_error, pc,
                   endpoint, body, request, call, calls, reply, response>>

-----------------------------------------------------------------------------
(* Request schema, lines 33-41 *)

ScalarKeys ==
    {"search_depth", "max_results", "include_answer", "include_raw_content",
     "include_images"}

DomainKeys == {"include_domains", "exclude_domains"}

\* a schema in which query would have a default too
FieldDefaultsQueryOptional ==
    [query |-> Some(""),
     search_depth |-> Some("advanced"), max_results |-> Some(8),
     include_answer |-> Some(TRUE), include_raw_content |-> Some(FALSE),
     include_images |-> Some(FALSE), include_domains |-> None,
     exclude_domains |-> None]

\* the defaults of SearchRequest; query has none, so it is required
FieldDefaults ==
    [search_depth |-> Some("advanced"), max_results |-> Some(8),
     include_answer |-> Some(TRUE), include_raw_content |-> Some(FALSE),
     include_images |-> Some(FALSE), include_domains |-> None,
     exclude_domains |-> None]

\* the model pydantic builds: supplied fields override the defaults
ParseRequest(ep, b) == IF ep = "search" THEN b @@ FieldDefaults ELSE b

\* query: str -- present after defaults, and a str (not null)
Validates(ep, b) ==
    LET m == ParseRequest(ep, b)
    IN  "query" \in DOMAIN m /\ m.query # None

-----------------------------------------------------------------------------
(* Responses *)

HTTPException(code, text) ==
    [kind |-> "HTTPException", status |-> code, detail |-> text]

ValidationError ==
    [kind |-> "RequestValidationError", status |-> 422,
     detail |-> <<"query", "field", "required">>]

Ok(kind, content) == [kind |-> kind, status |-> 200, body |-> content]

\* a detail that would leave out the cause
SearchErrorDetailNoCause(e) == <<"Tavily", "search", "error">>

\* line 102
SearchErrorDetail(e) == <<"Tavily", "search", "error", ":">> \o e

\* line 115
QuickErrorDetail(e) == <<"Quick", "search", "error", ":">> \o e

-----------------------------------------------------------------------------
(* perform_search, lines 62-102 *)

\* a parameter dict that would leave out defaults and nulls
ScalarParamsOnlyNonDefault(req) ==
    [k \in {j \in ScalarKeys : req[j] # None /\ req[j] # FieldDefaults[j]}
        |-> req[k]]

\* lines 65-71: the five scalar parameters are always passed
ScalarParams(req) == [k \in ScalarKeys |-> req[k]]

\* lines 72-75: a domain filter is passed only when truthy
DomainParam(req, k) == IF TruthyList(req[k]) THEN k :> req[k] ELSE <<>>

\* lines 78-81: the keyword arguments of tavily.search
SearchCall(req) ==
    ("query" :> req.query[1]) @@ ScalarParams(req)
        @@ DomainParam(req, "include_domains")
        @@ DomainParam(req, "exclude_domains")

\* line 108
QuickCall(req) == "query" :> req.query[1]

\* a mapping that would subscript published_date as well
RequiredFieldsAndDate == <<"title", "url", "content", "score", "published_date">>

\* lines 86-89: the subscripted keys, in evaluation order
RequiredFields == <<"title", "url", "content", "score">>

Missing(r) == {j \in 1..Len(RequiredFields) : RequiredFields[j] \notin DOMAIN r}

WellFormed(r) == Missing(r) = {}

\* str(KeyError(k)) for the first key an entry lacks
KeyErrorText(r) ==
    LET j == CHOOSE m \in Missing(r) : \A n \in Missing(r) : m <= n
    IN  <<"'" \o RequiredFields[j] \o "'">>

\* lines 85-91
SearchResultOf(r) ==
    [title |-> r.title, url |-> r.url, content |-> r.content,
     score |-> r.score, published_date |-> Get(r, "published_date")]

\* lines 84-93: the comprehension raises at the first malformed entry
FirstBad(results) ==
    LET bad == {i \in 1..Len(results) : ~WellFormed(results[i])}
    IN  IF bad = {} THEN 0 ELSE CHOOSE i \in bad : \A j \in bad : i <= j

\* lines 84-93 when no entry is malformed
StructuredResults(results) ==
    [i \in 1..Len(results) |-> SearchResultOf(results[i])]

\* a handler that would drop malformed entries instead of failing
PerformSearchResultSkippingBad(req, out) ==
    IF ~out.ok
      THEN HTTPException(500, SearchErrorDetail(out.error))
      ELSE Ok("SearchResponse",
              [query |-> req.query[1], answer |-> Get(out.value, "answer"),
               results |-> StructuredResults(
                   SelectSeq(GetOr(out.value, "results", <<>>), WellFormed))])

\* lines 63-102 after tavily.search has returned or raised
PerformSearchResult(req, out) ==
    IF ~out.ok
      THEN HTTPException(500, SearchErrorDetail(out.error))
      ELSE LET results == GetOr(out.value, "results", <<>>)
               bad == FirstBad(results)
           IN  IF bad # 0
                 THEN HTTPException(500, SearchErrorDetail(KeyErrorText(results[bad])))
                 ELSE Ok("SearchResponse",
                         [query |-> req.query[1],
                          answer |-> Get(out.value, "answer"),
                          results |-> StructuredResults(results)])

\* lines 107-115 after tavily.search has returned or raised
QuickSearchResult(req, out) ==
    IF ~out.ok
      THEN HTTPException(500, QuickErrorDetail(out.error))
      ELSE Ok("dict",
              [query |-> req.query[1], answer |-> Get(out.value, "answer"),
               results |-> Get(out.value, "results")])

\* line 58
HealthBody == [status |-> "healthy", message |-> "Web Search Microservice is running"]

-----------------------------------------------------------------------------
(* The provider: an opaque function that returns a reply or raises *)

Failure(text) == [ok |-> FALSE, error |-> text]

Reply(d) == [ok |-> TRUE, value |-> d]

FailureTexts == {<<"Tavily", "API", "is", "down">>, <<"timeout">>}

WithDate ==
    [title |-> "Mock Title", url |-> "https://example.com",
     content |-> "Mock content snippet", score |-> 95,
     published_date |-> "2025-01-01"]

NoDate == [title |-> "Test", url |-> "http://test.com", content |-> "...", score |-> 90]

NoScore == [title |-> "Partial", url |-> "http://partial.com", content |-> "p"]

NoTitle == [url |-> "http://untitled.com", content |-> "u", score |-> 10]

Entries == {WithDate, NoDate, NoScore, NoTitle}

ResultLists == UNION {[1..n -> Entries] : n \in 0..MaxResults}

Answers == {<<>>, "answer" :> "Mock answer"}

Outcomes ==
    {Failure(t) : t \in FailureTexts}
      \cup {Reply(a) : a \in Answers}
      \cup {Reply(a @@ ("results" :> l)) : a \in Answers, l \in ResultLists}

SmallOutcomes ==
    {Failure(<<"Tavily", "API", "is", "down">>),
     Reply("results" :> <<>>),
     Reply("results" :> <<NoScore>>),
     Reply(("answer" :> "Mock answer") @@ ("results" :> <<NoDate>>))}

-----------------------------------------------------------------------------
(* What clients send *)

\* a field of a JSON body: left out (<<>>), or present with one of the values
Field(k, vs) == {<<>>} \cup {k :> v : v \in vs}

SearchBodies ==
    {q @@ d @@ m @@ a @@ w @@ g @@ i @@ x :
        q \in Field("query", {None, Some(""), Some("latest robotics 2025")}),
        d \in Field("search_depth", {None, Some("advanced"), Some("invalid")}),
        m \in Field("max_results", {Some(8), Some(5)}),
        a \in Field("include_answer", {Some(FALSE)}),
        w \in Field("include_raw_content", {Some(TRUE)}),
        g \in Field("include_images", {Some(TRUE)}),
        i \in Field("include_domains", {Some(<<>>), Some(<<"a.com", "b.org">>)}),
        x \in Field("exclude_domains", {Some(<<>>), Some(<<"x.com">>)})}

QuickQueries == Field("query", {Some(""), Some("anything")})

Requests ==
    {<<"search", b>> : b \in SearchBodies}
      \cup {<<"quick-search", b>> : b \in QuickQueries}
      \cup {<<"health", <<>>>>}

SmallRequests ==
    {<<"search", <<>>>>,
     <<"search", "query" :> Some("test")>>,
     <<"search", ("query" :> Some("test")) @@ ("include_domains" :> Some(<<"a.com">>))>>,
     <<"quick-search", <<>>>>,
     <<"quick-search", "query" :> Some("anything")>>,
     <<"health", <<>>>>}

-----------------------------------------------------------------------------
(* Request handling *)

NoReply == [ok |-> FALSE, error |-> <<>>]

\* a request reaches the service; only a created app can receive one
Receive(r, R) ==
    /\ app
    /\ pc[r] = "idle"
    /\ \E e \in R :
         /\ endpoint' = [endpoint EXCEPT ![r] = e[1]]
         /\ body' = [body EXCEPT ![r] = e[2]]
    /\ pc' = [pc EXCEPT ![r] = "received"]
    /\ UNCHANGED <<startup, request, call, calls, reply, response>>

\* lines 56-58
HealthCheck(r) ==
    /\ pc[r] = "received"
    /\ endpoint[r] = "health"
    /\ response' = [response EXCEPT ![r] = Ok("dict", HealthBody)]
    /\ pc' = [pc EXCEPT ![r] = "done"]
    /\ UNCHANGED <<startup, endpoint, body, request, call, calls, reply>>

\* lines 33-41, 62, 106: the framework validates before the handler runs
Validate(r) ==
    /\ pc[r] = "received"
    /\ endpoint[r] \in {"search", "quick-search"}
    /\ IF Validates(endpoint[r], body[r])
         THEN /\ request' = [request EXCEPT ![r] = ParseRequest(endpoint[r], body[r])]
              /\ pc' = [pc EXCEPT ![r] = "handling"]
              /\ response' = response
         ELSE /\ response' = [response EXCEPT ![r] = ValidationError]
              /\ pc' = [pc EXCEPT ![r] = "done"]
              /\ request' = request
    /\ UNCHANGED <<startup, endpoint, body, call, calls, reply>>

\* lines 63-81 and 107-108: the handler runs up to the provider call
CallProvider(r) ==
    /\ pc[r] = "handling"
    /\ call' = [call EXCEPT ![r] =
                  IF endpoint[r] = "search" THEN SearchCall(request[r])
                                            ELSE QuickCall(request[r])]
    /\ calls' = [calls EXCEPT ![r] = @ + 1]
    /\ pc' = [pc EXCEPT ![r] = "awaiting"]
    /\ UNCHANGED <<startup, endpoint, body, request, reply, response>>

\* a handler that starts over when the provider raises
ProviderReturnsRetrying(r, O) ==
    /\ pc[r] = "awaiting"
    /\ \E out \in O :
         /\ reply' = [reply EXCEPT ![r] = out]
         /\ IF ~out.ok /\ calls[r] < 2
              THEN /\ pc' = [pc EXCEPT ![r] = "handling"]
                   /\ response' = response
              ELSE /\ pc' = [pc EXCEPT ![r] = "done"]
                   /\ response' = [response EXCEPT ![r] =
                         IF endpoint[r] = "search"
                           THEN PerformSearchResult(request[r], out)
                           ELSE QuickSearchResult(request[r], out)]
    /\ UNCHANGED <<startup, endpoint, body, request, call, calls>>

\* lines 78-102 and 108-115: the provider returns or raises, the handler
\* finishes
ProviderReturns(r, O) ==
    /\ pc[r] = "awaiting"
    /\ \E out \in O :
         /\ reply' = [reply EXCEPT ![r] = out]
         /\ response' = [response EXCEPT ![r] =
               IF endpoint[r] = "search"
                 THEN PerformSearchResult(request[r], out)
                 ELSE QuickSearchResult(request[r], out)]
    /\ pc' = [pc EXCEPT ![r] = "done"]
    /\ UNCHANGED <<startup, endpoint, body, request, call, calls>>

\* the response is sent; nothing of the request is kept
Deliver(r) ==
    /\ pc[r] = "done"
    /\ pc' = [pc EXCEPT ![r] = "idle"]
    /\ endpoint' = [endpoint EXCEPT ![r] = "none"]
    /\ body' = [body EXCEPT ![r] = <<>>]
    /\ request' = [request EXCEPT ![r] = <<>>]
    /\ call' = [call EXCEPT ![r] = <<>>]
    /\ calls' = [calls EXCEPT ![r] = 0]
    /\ reply' = [reply EXCEPT ![r] = NoReply]
    /\ response' = [response EXCEPT ![r] = <<>>]
    /\ UNCHANGED startup

-----------------------------------------------------------------------------
(* Specifications *)

InitWith(slots) ==
    /\ environ \in EnvironValues
    /\ init_pc = "start"
    /\ TAVILY_API_KEY = None
    /\ tavily = None
    /\ app = FALSE
    /\ startup_error = <<>>
    /\ pc = [r \in slots |-> "idle"]
    /\ endpoint = [r \in slots |-> "none"]
    /\ body = [r \in slots |-> <<>>]
    /\ request = [r \in slots |-> <<>>]
    /\ call = [r \in slots |-> <<>>]
    /\ calls = [r \in slots |-> 0]
    /\ reply = [r \in slots |-> NoReply]
    /\ response = [r \in slots |-> <<>>]

\* one request at a time, over the full range of bodies and provider outcomes
Init == InitWith({1})

Next ==
    \/ LoadKey
    \/ CreateClient
    \/ CreateApp
    \/ \E r \in DOMAIN pc : Receive(r, Requests)
    \/ \E r \in DOMAIN pc : HealthCheck(r)
    \/ \E r \in DOMAIN pc : Validate(r)
    \/ \E r \in DOMAIN pc : CallProvider(r)
    \/ \E r \in DOMAIN pc : ProviderReturns(r, Outcomes)
    \/ \E r \in DOMAIN pc : Deliver(r)

Spec == Init /\ [][Next]_vars

\* NumReqs requests in flight at once, over a small range of bodies and outcomes
InitConc == InitWith(1..NumReqs)

NextConc ==
    \/ LoadKey
    \/ CreateClient
    \/ CreateApp
    \/ \E r \in DOMAIN pc : Receive(r, SmallRequests)
    \/ \E r \in DOMAIN pc : HealthCheck(r)
    \/ \E r \in DOMAIN pc : Validate(r)
    \/ \E r \in DOMAIN pc : CallProvider(r)
    \/ \E r \in DOMAIN pc : ProviderReturns(r, SmallOutcomes)
    \/ \E r \in DOMAIN pc : Deliver(r)

SpecConc == InitConc /\ [][NextConc]_vars

-----------------------------------------------------------------------------
(* Properties *)

Slots == DOMAIN pc

\* a /search request whose provider call has been made
Called(r) == endpoint[r] = "search" /\ calls[r] > 0

\* C1: when the provider call of a validated POST /search fails, the response
\* is an HTTPException of status 500 whose detail contains the failure's
\* description, and it carries no SearchResponse body.
C1_UpstreamFailureIs500 ==
    \A r \in Slots :
        (pc[r] = "done" /\ Called(r) /\ ~reply[r].ok) =>
            /\ response[r].kind = "HTTPException"
            /\ response[r].status = 500
            /\ Contains(response[r].detail, reply[r].error)
            /\ "body" \notin DOMAIN response[r]

C1_Witness ==
    \E r \in Slots :
        /\ pc[r] = "done" /\ Called(r)
        /\ reply[r] = Failure(<<"Tavily", "API", "is", "down">>)
        /\ response[r].status = 500

\* C2: a POST /search whose query is the empty string is answered 422 and
\* never reaches the provider.
C2_EmptyQueryRejected ==
    \A r \in Slots :
        (endpoint[r] = "search" /\ Get(body[r], "query") = Some(Some(""))) =>
            /\ calls[r] = 0
            /\ pc[r] \notin {"handling", "awaiting"}
            /\ pc[r] = "done" => response[r].status = 422

\* C3: the provider call holds include_domains (exclude_domains) exactly when
\* the request supplied a non-empty list for it, then with that very list; the
\* key is never sent for an absent field and never sent as an empty list.
C3_DomainFiltersOnlyWhenNonEmpty ==
    \A r \in Slots :
        Called(r) =>
            \A k \in DomainKeys :
                /\ k \in DOMAIN call[r] <=>
                     (k \in DOMAIN body[r] /\ body[r][k] # None /\ body[r][k][1] # <<>>)
                /\ k \in DOMAIN call[r] =>
                     (call[r][k] = body[r][k] /\ Len(call[r][k][1]) > 0)

C3_Witness ==
    \E r \in Slots :
        /\ pc[r] = "awaiting" /\ Called(r)
        /\ "include_domains" \notin DOMAIN body[r]
        /\ "exclude_domains" \in DOMAIN body[r]
        /\ body[r]["exclude_domains"] = Some(<<"x.com">>)
        /\ "include_domains" \notin DOMAIN call[r]
        /\ call[r]["exclude_domains"] = Some(<<"x.com">>)

\* C4: when the provider call of GET /quick-search fails, the response has
\* status 500 and its detail contains "Tavily search error".
C4_QuickSearchFailureDetail ==
    \A r \in Slots :
        (pc[r] = "done" /\ endpoint[r] = "quick-search" /\ calls[r] > 0
            /\ ~reply[r].ok) =>
            /\ response[r].status = 500
            /\ Contains(response[r].detail, <<"Tavily", "search", "error">>)

\* C5: every successful SearchResponse has title, url, content and score in
\* each result; if any entry of the provider's list lacks one of them the
\* request fails with an error and no body at all.
C5_AllOrNothing ==
    \A r \in Slots :
        (pc[r] = "done" /\ Called(r)) =>
            /\ response[r].status = 200 =>
                 \A i \in 1..Len(response[r].body.results) :
                     {"title", "url", "content", "score"}
                         \subseteq DOMAIN response[r].body.results[i]
            /\ (reply[r].ok /\ "results" \in DOMAIN reply[r].value
                  /\ \E i \in 1..Len(reply[r].value.results) :
                        ~({"title", "url", "content", "score"}
                            \subseteq DOMAIN reply[r].value.results[i])) =>
                 /\ response[r].status = 500
                 /\ response[r].kind = "HTTPException"
                 /\ "body" \notin DOMAIN response[r]

C5_Witness ==
    \E r \in Slots :
        /\ pc[r] = "done" /\ Called(r)
        /\ reply[r].ok
        /\ "results" \in DOMAIN reply[r].value
        /\ reply[r].value.results = <<WithDate, NoScore>>
        /\ response[r].status = 500

\* C6 as stated: a scalar parameter is in the provider call exactly when the
\* request supplied it with a value that is neither null nor its default.
C6_OnlyNonDefaultSent ==
    \A r \in Slots :
        Called(r) =>
            \A k \in ScalarKeys :
                k \in DOMAIN call[r] <=>
                    (k \in DOMAIN body[r] /\ body[r][k] # None
                        /\ body[r][k] # FieldDefaults[k])

\* C6 as amended: the provider call always holds query and all five scalar
\* parameters, each with the request's value (the supplied one, else the
\* field's default); beyond these it holds only the domain filters that were
\* supplied non-empty.
C6_ScalarsAlwaysSent ==
    \A r \in Slots :
        Called(r) =>
            /\ DOMAIN call[r] =
                 {"query"} \cup ScalarKeys
                   \cup {k \in DomainKeys :
                           k \in DOMAIN body[r] /\ body[r][k] # None
                             /\ body[r][k][1] # <<>>}
            /\ call[r]["query"] = body[r]["query"][1]
            /\ \A k \in ScalarKeys :
                 call[r][k] = IF k \in DOMAIN body[r] THEN body[r][k]
                                                      ELSE FieldDefaults[k]

C6_Witness ==
    \E r \in Slots :
        /\ pc[r] = "awaiting" /\ Called(r)
        /\ DOMAIN body[r] = {"query", "max_results"}
        /\ body[r]["max_results"] = Some(5)
        /\ call[r]["max_results"] = Some(5)
        /\ call[r]["search_depth"] = Some("advanced")
        /\ call[r]["include_answer"] = Some(TRUE)

\* C7: a reply whose n entries are all well formed gives status 200 with the
\* request's query, the provider's answer (None when not supplied) and exactly
\* n results, the i-th a field-by-field copy of the i-th entry with
\* published_date None when missing; n = 0 gives results = [] with success.
C7_FaithfulMapping ==
    \A r \in Slots :
        (pc[r] = "done" /\ Called(r) /\ reply[r].ok) =>
            LET v == reply[r].value
                l == IF "results" \in DOMAIN v THEN v.results ELSE <<>>
            IN  (\A i \in 1..Len(l) :
                    {"title", "url", "content", "score"} \subseteq DOMAIN l[i]) =>
                    /\ response[r].status = 200
                    /\ response[r].kind = "SearchResponse"
                    /\ response[r].body.query = body[r]["query"][1]
                    /\ response[r].body.answer =
                         (IF "answer" \in DOMAIN v THEN <<v.answer>> ELSE <<>>)
                    /\ Len(response[r].body.results) = Len(l)
                    /\ \A i \in 1..Len(l) :
                         LET o == response[r].body.results[i]
                         IN  /\ o.title = l[i].title
                             /\ o.url = l[i].url
                             /\ o.content = l[i].content
                             /\ o.score = l[i].score
                             /\ o.published_date =
                                  (IF "published_date" \in DOMAIN l[i]
                                     THEN <<l[i].published_date>> ELSE <<>>)

C7_Witness ==
    \E r \in Slots :
        /\ pc[r] = "done" /\ Called(r) /\ reply[r].ok
        /\ reply[r].value = ("results" :> <<NoDate, WithDate>>)
        /\ response[r].status = 200
        /\ response[r].body.answer = None
        /\ response[r].body.results[1].published_date = None
        /\ response[r].body.results[2].published_date = Some("2025-01-01")

\* C8: a POST /search without the query field is answered with a validation
\* error, and the provider is not invoked for it at any point.
C8_MissingQueryNeverCalls ==
    \A r \in Slots :
        (endpoint[r] = "search" /\ "query" \notin DOMAIN body[r]) =>
            /\ calls[r] = 0
            /\ pc[r] \in {"received", "done"}
            /\ pc[r] = "done" =>
                 /\ response[r].status = 422
                 /\ response[r].kind = "RequestValidationError"

C8_Witness ==
    \E r \in Slots :
        /\ pc[r] = "done"
        /\ endpoint[r] = "search"
        /\ "query" \notin DOMAIN body[r]
        /\ "max_results" \in DOMAIN body[r]
        /\ response[r].status = 422

\* C9: with TAVILY_API_KEY unset or empty, initialisation stops with an error
\* saying the key is not set, before the client or the app exists, and no
\* request is ever received.
C9_MissingKeyFailsFast ==
    (environ = None \/ environ = Some("")) =>
        /\ init_pc \in {"start", "failed"}
        /\ tavily = None
        /\ ~app
        /\ \A r \in Slots : pc[r] = "idle"
        /\ init_pc = "failed" =>
             Contains(startup_error, <<"TAVILY_API_KEY", "not", "set">>)

C9_Witness ==
    /\ environ = Some("")
    /\ init_pc = "failed"
    /\ startup_error = KeyNotSetText

\* C10: a request that passed validation has invoked the provider exactly once
\* by the time it is answered, on success and on failure alike, and never more
\* than once at any time, with several requests in flight.
C10_ExactlyOneCall ==
    \A r \in Slots :
        /\ calls[r] <= 1
        /\ pc[r] \in {"idle", "received", "handling"} => calls[r] = 0
        /\ pc[r] = "awaiting" => calls[r] = 1
        /\ (pc[r] = "done" /\ endpoint[r] \in {"search", "quick-search"}
              /\ response[r].status # 422) => calls[r] = 1

C10_Witness ==
    \E r, s \in Slots :
        /\ r # s
        /\ pc[r] = "done" /\ endpoint[r] = "search"
        /\ ~reply[r].ok /\ response[r].status = 500 /\ calls[r] = 1
        /\ pc[s] = "awaiting" /\ calls[s] = 1

====
